---- MODULE Spec2Model ----
\* A model of fluent-datetime: the style bag (src/src/length.rs), its
\* compilation to an ICU field-set builder, the merge of DATETIME's named
\* arguments and the DATETIME function itself (src/src/lib.rs).
EXTENDS Integers, Sequences, FiniteSets, TLC

VARIABLES
    dt,                 \* the host's FluentDateTime { value, options }
    call,               \* the DATETIME call in progress: arguments and outcome
    lang,               \* the language of the bundle's memoizers
    SYSTEM_TZ,          \* the LazyLock holding the system time zone
    intls,              \* IntlLangMemoizer: the formatters cached by options
    intls_concurrent,   \* concurrent::IntlLangMemoizer: the types it has cached
    render,             \* the last string conversion: input and outcome
    threads,            \* the concurrent callers of as_string_threadsafe
    constructions       \* what construct has done for the memoizer so far

vars == <<dt, call, lang, SYSTEM_TZ, intls, intls_concurrent, render, threads,
          constructions>>

\* ------------------------------------------------------------------ bounds

\* The largest number of named arguments of one DATETIME call.
MaxNamed == 2

\* The largest number of positional arguments of one DATETIME call.
MaxPositional == 2

\* The largest number of formatters the memoizer is let to hold.
MaxCache == 1

\* The number of threads that call as_string_threadsafe concurrently.
NThreads == 2

\* The element of a one-element set. The({F(x) : x \in {e}}) is F(e), with e
\* evaluated once.
The(S) == CHOOSE x \in S : TRUE

\* ------------------------------------------------------------- style model

\* Option::None, for every Option<_> of the program.
None == "None"

\* length::Date
Date == {"Full", "Long", "Medium", "Short"}

\* length::Time
Time == {"Full", "Long", "Medium", "Short"}

\* length::Bag { date: Option<Date>, time: Option<Time> }
Bag == [date : Date \cup {None}, time : Time \cup {None}]

\* Bag::empty()
empty == [date |-> None, time |-> None]

\* FieldSetBuilder::new(): every field None.
FieldSetBuilder_new ==
    [length |-> None, date_fields |-> None, time_precision |-> None,
     zone_style |-> None, alignment |-> None, year_style |-> None]

\* to_fieldset_builder falling back to Bag::default() (medium date and time) for the empty bag.
to_fieldset_builder_medium(self) ==
    LET sub  == IF self = empty THEN [date |-> "Medium", time |-> "Medium"] ELSE self
        date == sub.date
        time == sub.time
        b1   == IF date # None
                THEN [FieldSetBuilder_new EXCEPT
                        !.date_fields = IF date = "Full" THEN "YMDE" ELSE "YMD",
                        !.length = CASE date \in {"Full", "Long"} -> "Long"
                                     [] date = "Medium" -> "Medium"
                                     [] date = "Short" -> "Short"]
                ELSE FieldSetBuilder_new
        b2   == IF time # None
                THEN [b1 EXCEPT
                        !.time_precision = IF time = "Short" THEN "Minute" ELSE "Second",
                        !.zone_style = IF time = "Full" THEN "SpecificLong"
                                       ELSE IF time = "Long" THEN "SpecificShort"
                                       ELSE @]
                ELSE b1
    IN b2

\* to_fieldset_builder giving the weekday to Long dates too.
to_fieldset_builder_weekday(self) ==
    LET sub  == IF self = empty THEN [date |-> "Short", time |-> None] ELSE self
        date == sub.date
        time == sub.time
        b1   == IF date # None
                THEN [FieldSetBuilder_new EXCEPT
                        !.date_fields = IF date \in {"Full", "Long"} THEN "YMDE" ELSE "YMD",
                        !.length = CASE date \in {"Full", "Long"} -> "Long"
                                     [] date = "Medium" -> "Medium"
                                     [] date = "Short" -> "Short"]
                ELSE FieldSetBuilder_new
        b2   == IF time # None
                THEN [b1 EXCEPT
                        !.time_precision = IF time = "Short" THEN "Minute" ELSE "Second",
                        !.zone_style = IF time = "Full" THEN "SpecificLong"
                                       ELSE IF time = "Long" THEN "SpecificShort"
                                       ELSE @]
                ELSE b1
    IN b2

\* to_fieldset_builder with the zone styles of Full and Long exchanged.
to_fieldset_builder_swapped(self) ==
    LET sub  == IF self = empty THEN [date |-> "Short", time |-> None] ELSE self
        date == sub.date
        time == sub.time
        b1   == IF date # None
                THEN [FieldSetBuilder_new EXCEPT
                        !.date_fields = IF date = "Full" THEN "YMDE" ELSE "YMD",
                        !.length = CASE date \in {"Full", "Long"} -> "Long"
                                     [] date = "Medium" -> "Medium"
                                     [] date = "Short" -> "Short"]
                ELSE FieldSetBuilder_new
        b2   == IF time # None
                THEN [b1 EXCEPT
                        !.time_precision = IF time = "Short" THEN "Minute" ELSE "Second",
                        !.zone_style = IF time = "Full" THEN "SpecificShort"
                                       ELSE IF time = "Long" THEN "SpecificLong"
                                       ELSE @]
                ELSE b1
    IN b2

\* to_fieldset_builder without the substitute for the empty bag.
to_fieldset_builder_nodefault(self) ==
    LET date == self.date
        time == self.time
        b1   == IF date # None
                THEN [FieldSetBuilder_new EXCEPT
                        !.date_fields = IF date = "Full" THEN "YMDE" ELSE "YMD",
                        !.length = CASE date \in {"Full", "Long"} -> "Long"
                                     [] date = "Medium" -> "Medium"
                                     [] date = "Short" -> "Short"]
                ELSE FieldSetBuilder_new
        b2   == IF time # None
                THEN [b1 EXCEPT
                        !.time_precision = IF time = "Short" THEN "Minute" ELSE "Second",
                        !.zone_style = IF time = "Full" THEN "SpecificLong"
                                       ELSE IF time = "Long" THEN "SpecificShort"
                                       ELSE @]
                ELSE b1
    IN b2

\* Bag::to_fieldset_builder
to_fieldset_builder(self) ==
    LET sub  == IF self = empty THEN [date |-> "Short", time |-> None] ELSE self
        date == sub.date
        time == sub.time
        b1   == IF date # None
                THEN [FieldSetBuilder_new EXCEPT
                        !.date_fields = IF date = "Full" THEN "YMDE" ELSE "YMD",
                        !.length = CASE date \in {"Full", "Long"} -> "Long"
                                     [] date = "Medium" -> "Medium"
                                     [] date = "Short" -> "Short"]
                ELSE FieldSetBuilder_new
        b2   == IF time # None
                THEN [b1 EXCEPT
                        !.time_precision = IF time = "Short" THEN "Minute" ELSE "Second",
                        !.zone_style = IF time = "Full" THEN "SpecificLong"
                                       ELSE IF time = "Long" THEN "SpecificShort"
                                       ELSE @]
                ELSE b1
    IN b2

\* ------------------------------------------------------------ fluent values

\* FluentValue::String(s)
FVString(s) == [kind |-> "String", str |-> s]

\* FluentValue::Number
FVNumber == [kind |-> "Number"]

\* FluentValue::Error
FVError == [kind |-> "Error"]

\* FluentValue::Custom holding a FluentDateTime { value, options }
FVCustom(fdt) ==
    [kind |-> "Custom", type |-> "FluentDateTime", value |-> fdt.value, options |-> fdt.options]

\* FluentValue::Custom holding another FluentType: the downcast to FluentDateTime fails.
FVCustomOther == [kind |-> "Custom", type |-> "Other"]

\* val_as_str: Some(str) for a string value, None otherwise.
val_as_str(val) ==
    IF val.kind = "String" THEN [some |-> TRUE, str |-> val.str]
    ELSE [some |-> FALSE, str |-> ""]

\* FluentDateTimeOptions { length: Bag }
FluentDateTimeOptions(bag) == [length |-> bag]

\* FluentDateTimeOptions::default()
FluentDateTimeOptions_default == FluentDateTimeOptions(empty)

\* FluentDateTimeOptions::set_date_style
set_date_style(self, style) == [self EXCEPT !.length.date = style]

\* FluentDateTimeOptions::set_time_style
set_time_style(self, style) == [self EXCEPT !.length.time = style]

\* The match on a dateStyle / timeStyle string: the length, or None for `_ => return Err(())`.
match_style(s) ==
    CASE s = "full" -> "Full"
      [] s = "long" -> "Long"
      [] s = "medium" -> "Medium"
      [] s = "short" -> "Short"
      [] OTHER -> None

\* merge_arg merging field by field: an axis already set is kept.
merge_arg_keep(st, k, v) ==
    LET s == val_as_str(v)
        m == IF s.some THEN match_style(s.str) ELSE None
    IN IF ~st.ok THEN st
       ELSE IF k = "dateStyle"
            THEN IF m = None THEN [st EXCEPT !.ok = FALSE]
                 ELSE IF st.self.length.date = None THEN [st EXCEPT !.self.length.date = m]
                 ELSE st
       ELSE IF k = "timeStyle"
            THEN IF m = None THEN [st EXCEPT !.ok = FALSE]
                 ELSE IF st.self.length.time = None THEN [st EXCEPT !.self.length.time = m]
                 ELSE st
       ELSE st

\* merge_arg with val_as_str(v).ok_or(())? hoisted above the match on the name.
merge_arg_strict(st, k, v) ==
    LET s == val_as_str(v)
        m == IF s.some THEN match_style(s.str) ELSE None
    IN IF ~st.ok THEN st
       ELSE IF ~s.some THEN [st EXCEPT !.ok = FALSE]
       ELSE IF k = "dateStyle"
            THEN IF m = None THEN [st EXCEPT !.ok = FALSE]
                 ELSE [st EXCEPT !.self.length.date = m]
       ELSE IF k = "timeStyle"
            THEN IF m = None THEN [st EXCEPT !.ok = FALSE]
                 ELSE [st EXCEPT !.self.length.time = m]
       ELSE st

\* One iteration of merge_args' loop over (k, v); st = [ok, self]. `?` and
\* `return Err(())` leave self as the earlier iterations made it.
merge_arg(st, k, v) ==
    LET s == val_as_str(v)
        m == IF s.some THEN match_style(s.str) ELSE None
    IN IF ~st.ok THEN st
       ELSE IF k = "dateStyle"
            THEN IF m = None THEN [st EXCEPT !.ok = FALSE]
                 ELSE [st EXCEPT !.self.length.date = m]
       ELSE IF k = "timeStyle"
            THEN IF m = None THEN [st EXCEPT !.ok = FALSE]
                 ELSE [st EXCEPT !.self.length.time = m]
       ELSE st

RECURSIVE merge_loop(_, _, _)
\* merge_args' loop from the i-th named argument on.
merge_loop(st, other, i) ==
    IF i > Len(other) THEN st
    ELSE merge_loop(merge_arg(st, other[i][1], other[i][2]), other, i + 1)

\* FluentDateTimeOptions::merge_args(&mut self, other): [ok, self], self
\* being the receiver as the call leaves it.
merge_args(self, other) == merge_loop([ok |-> TRUE, self |-> self], other, 1)

\* The FluentDateTime a custom value holds.
downcast(v) == [value |-> v.value, options |-> v.options]

\* The outcome of DATETIME when the merge is not reached.
NotReached(positional) ==
    [ret |-> FVError, positional |-> positional, reached |-> FALSE,
     merged |-> [ok |-> FALSE, self |-> FluentDateTimeOptions_default]]

\* DATETIME merging into the FluentDateTime of the caller's slice, without a clone.
DATETIME_inplace(positional, named) ==
    IF Len(positional) >= 1 /\ positional[1].kind = "Custom"
    THEN IF positional[1].type = "FluentDateTime"
         THEN LET m == merge_args(positional[1].options, named)
              IN [ret |-> IF m.ok
                          THEN FVCustom([value |-> positional[1].value, options |-> m.self])
                          ELSE FVError,
                  positional |-> [positional EXCEPT ![1].options = m.self],
                  reached |-> TRUE,
                  merged |-> m]
         ELSE NotReached(positional)
    ELSE NotReached(positional)

\* DATETIME dropping the result of merge_args: the clone is returned as the merge left it.
DATETIME_ignore_err(positional, named) ==
    IF Len(positional) >= 1 /\ positional[1].kind = "Custom"
    THEN IF positional[1].type = "FluentDateTime"
         THEN LET clone == downcast(positional[1])
                  m     == merge_args(clone.options, named)
              IN [ret |-> FVCustom([value |-> clone.value, options |-> m.self]),
                  positional |-> positional,
                  reached |-> TRUE,
                  merged |-> m]
         ELSE NotReached(positional)
    ELSE NotReached(positional)

\* DATETIME taking the first FluentDateTime among the positional arguments.
DATETIME_anypos(positional, named) ==
    LET found == {i \in 1..Len(positional) :
                    positional[i].kind = "Custom" /\ positional[i].type = "FluentDateTime"}
    IN IF found # {}
       THEN LET i     == CHOOSE j \in found : \A l \in found : j <= l
                clone == downcast(positional[i])
                m     == merge_args(clone.options, named)
            IN [ret |-> IF m.ok
                        THEN FVCustom([value |-> clone.value, options |-> m.self])
                        ELSE FVError,
                positional |-> positional,
                reached |-> TRUE,
                merged |-> m]
       ELSE NotReached(positional)

\* DATETIME(positional, named): ret is the returned value, positional the
\* caller's slice as the call leaves it, merged the outcome of merge_args on
\* the clone (ok = FALSE, self untouched, when the merge is not reached).
DATETIME(positional, named) ==
    IF Len(positional) >= 1 /\ positional[1].kind = "Custom"
    THEN IF positional[1].type = "FluentDateTime"
         THEN LET clone == downcast(positional[1])
                  m     == merge_args(clone.options, named)
              IN [ret |-> IF m.ok
                          THEN FVCustom([value |-> clone.value, options |-> m.self])
                          ELSE FVError,
                  positional |-> positional,
                  reached |-> TRUE,
                  merged |-> m]
         ELSE NotReached(positional)
    ELSE NotReached(positional)

\* ------------------------------------------------------- formatter building

\* FieldSetBuilder::build_composite_datetime: a date, time or date-time field
\* set; an error when neither is asked for or a zone style is left over.
build_composite_datetime(fsb) ==
    IF fsb.zone_style # None \/ (fsb.date_fields = None /\ fsb.time_precision = None)
    THEN [ok |-> FALSE, fieldset |-> fsb]
    ELSE [ok |-> TRUE, fieldset |-> fsb]

\* FieldSetBuilder::build_composite: as above, with or without a zone; an
\* error when no field at all is asked for.
build_composite(fsb) ==
    IF fsb.date_fields = None /\ fsb.time_precision = None /\ fsb.zone_style = None
    THEN [ok |-> FALSE, fieldset |-> fsb]
    ELSE [ok |-> TRUE, fieldset |-> fsb]

\* The language identifiers of the bundles: two ICU knows, one that
\* icu_locale_core does not parse, one whose data has no time-zone names.
Langs == {"en-US", "fr-FR", "unparsable", "nodata"}

\* lang.to_string().parse::<icu_locale_core::LanguageIdentifier>()
icu_parse(tag) == [ok |-> tag # "unparsable", langid |-> tag]

\* icu_datetime::DateTimeFormatter::try_new: Err(DateTimeFormatterLoadError)
\* when the data the field set needs cannot be loaded for the language.
try_new(langid, fieldset) ==
    [ok |-> ~(langid = "nodata" /\ fieldset.zone_style # None)]

\* No formatter was obtained.
NoFormatter == [variant |-> None, lang |-> "", fieldset |-> FieldSetBuilder_new]

\* FluentDateTimeOptions::make_formatter: Ok(formatter), Err(load error), or
\* a panic of build_*().unwrap().
make_formatter(self, langid) ==
    LET fsb   == to_fieldset_builder(self.length)
        zoned == fsb.zone_style # None
        built == IF zoned THEN build_composite(fsb) ELSE build_composite_datetime(fsb)
    IN IF ~built.ok THEN [status |-> "panic", formatter |-> NoFormatter]
       ELSE IF ~try_new(langid, built.fieldset).ok
            THEN [status |-> "Err", formatter |-> NoFormatter]
       ELSE [status |-> "Ok",
             formatter |-> [variant |-> IF zoned THEN "WithZone" ELSE "NoZone",
                            lang |-> langid, fieldset |-> built.fieldset]]

\* Memoizable::construct for DateTimeFormatter
construct(lng, args) ==
    LET parsed == icu_parse(lng)
    IN IF ~parsed.ok THEN [status |-> "Err", formatter |-> NoFormatter]
       ELSE make_formatter(args, parsed.langid)

\* ------------------------------------------------------ timezone resolution

\* clamp_datetime_for_jiff that leaves the subsecond of a leap second alone.
clamp_datetime_for_jiff_truncate(d) ==
    IF d.second < 60 THEN d
    ELSE [d EXCEPT !.second = 59]

\* clamp_datetime_for_jiff
clamp_datetime_for_jiff(d) ==
    IF d.second < 60 THEN d
    ELSE [d EXCEPT !.second = 59, !.subsecond = 999999999]

\* jiff_icu's conversion to jiff::civil::DateTime: an error outside jiff's
\* ranges (years -9999..=9999, seconds 0..=59).
convert_try_into(d) ==
    [ok |-> d.year \in -9999..9999 /\ d.second \in 0..59 /\ d.subsecond \in 0..999999999,
     jdt |-> d]

\* Days from 1970-01-01 to the civil date y-m-d.
DaysFromCivil(y, m, d) ==
    LET yy  == IF m <= 2 THEN y - 1 ELSE y
        era == yy \div 400
        yoe == yy - era * 400
        mp  == IF m > 2 THEN m - 3 ELSE m + 9
        doy == (153 * mp + 2) \div 5 + d - 1
        doe == yoe * 365 + yoe \div 4 - yoe \div 100 + doy
    IN era * 146097 + doe - 719468

\* The civil date that is z days from 1970-01-01.
CivilFromDays(z) ==
    LET zz  == z + 719468
        era == zz \div 146097
        doe == zz - era * 146097
        yoe == (doe - doe \div 1460 + doe \div 36524 - doe \div 146096) \div 365
        doy == doe - (365 * yoe + yoe \div 4 - yoe \div 100)
        mp  == (5 * doy + 2) \div 153
        m   == IF mp < 10 THEN mp + 3 ELSE mp - 9
    IN [year  |-> yoe + era * 400 + (IF m <= 2 THEN 1 ELSE 0),
        month |-> m,
        day   |-> doy - (153 * mp + 2) \div 5 + 1]

\* The whole hours from 1970-01-01T00 to the hour of a civil date-time.
HoursOf(jdt) == DaysFromCivil(jdt.year, jdt.month, jdt.day) * 24 + jdt.hour

\* The system time zones of the runs, offsets from UTC in hours: UTC, and
\* America/New_York with its standard offset and its two transitions of
\* 2024 (to daylight time at 2024-03-10T07:00Z, back at 2024-11-03T06:00Z).
Zones ==
    {[name |-> "UTC", offset |-> 0, transitions |-> <<>>],
     [name |-> "America/New_York", offset |-> -5,
      transitions |-> <<[at |-> DaysFromCivil(2024, 3, 10) * 24 + 7, offset |-> -4],
                        [at |-> DaysFromCivil(2024, 11, 3) * 24 + 6, offset |-> -5]>>]}

\* The offset of tz before its i-th transition.
OffsetBefore(tz, i) == IF i = 1 THEN tz.offset ELSE tz.transitions[i - 1].offset

\* jiff::tz::TimeZone::to_offset: the offset of tz at the instant h hours
\* from the epoch.
OffsetAt(tz, h) ==
    LET past == {i \in DOMAIN tz.transitions : tz.transitions[i].at <= h}
    IN IF past = {} THEN tz.offset
       ELSE tz.transitions[CHOOSE i \in past : \A j \in past : j <= i].offset

\* jiff::tz::TimeZone::to_ambiguous_timestamp: the offsets of the local hour
\* lh in tz: in the gap of a transition to a greater offset, in the fold of a
\* transition to a smaller one, or with one offset.
to_ambiguous_timestamp(tz, lh) ==
    LET T == tz.transitions
        gaps  == {i \in DOMAIN T : T[i].at + OffsetBefore(tz, i) <= lh
                                      /\ lh < T[i].at + T[i].offset}
        folds == {i \in DOMAIN T : T[i].at + T[i].offset <= lh
                                      /\ lh < T[i].at + OffsetBefore(tz, i)}
    IN IF gaps # {}
       THEN LET i == CHOOSE i \in gaps : TRUE
            IN [kind |-> "Gap", before |-> OffsetBefore(tz, i), after |-> T[i].offset]
       ELSE IF folds # {}
       THEN LET i == CHOOSE i \in folds : TRUE
            IN [kind |-> "Fold", before |-> OffsetBefore(tz, i), after |-> T[i].offset]
       ELSE LET past == {i \in DOMAIN T : T[i].at + T[i].offset <= lh}
                off  == IF past = {} THEN tz.offset
                        ELSE T[CHOOSE i \in past : \A j \in past : j <= i].offset
            IN [kind |-> "Unambiguous", before |-> off, after |-> off]

\* jiff::tz::AmbiguousTimestamp::later: the offset after a fold, the offset
\* before a gap.
later(amb) == IF amb.kind = "Fold" THEN amb.after ELSE amb.before

\* jiff::tz::AmbiguousTimestamp::compatible: the offset before the
\* transition, in a gap as in a fold.
compatible(amb) == amb.before

\* The instant of a civil date-time at a UTC offset: whole hours from the
\* epoch, and the rest of the hour.
InstantOf(jdt, offset) ==
    [hours |-> HoursOf(jdt) - offset,
     minute |-> jdt.minute, second |-> jdt.second, subsecond |-> jdt.subsecond]

\* a is not later than b.
InstantLeq(a, b) ==
    \/ a.hours < b.hours
    \/ a.hours = b.hours /\ a.minute < b.minute
    \/ a.hours = b.hours /\ a.minute = b.minute /\ a.second < b.second
    \/ a.hours = b.hours /\ a.minute = b.minute /\ a.second = b.second
         /\ a.subsecond <= b.subsecond

\* jiff::Timestamp::MIN (-9999-01-02T01:59:59Z) and MAX (9999-12-30T22:00:00.999999999Z)
TimestampMin ==
    [hours |-> DaysFromCivil(-9999, 1, 2) * 24 + 1, minute |-> 59, second |-> 59,
     subsecond |-> 0]

TimestampMax ==
    [hours |-> DaysFromCivil(9999, 12, 30) * 24 + 22, minute |-> 0, second |-> 0,
     subsecond |-> 999999999]

\* The civil date-time of an instant at a UTC offset.
CivilAt(instant, offset) ==
    LET lh  == instant.hours + offset
        day == CivilFromDays(lh \div 24)
    IN [year |-> day.year, month |-> day.month, day |-> day.day, hour |-> lh % 24,
        minute |-> instant.minute, second |-> instant.second,
        subsecond |-> instant.subsecond]

\* jiff::civil::DateTime::to_zoned: the instant of the date-time at the offset
\* the compatible strategy picks, as a date-time of the zone at the offset
\* the zone has at that instant; an error when the instant is outside the
\* range of Timestamp.
to_zoned(jdt, tz) ==
    The({[ok |-> InstantLeq(TimestampMin, instant) /\ InstantLeq(instant, TimestampMax),
          zoned |-> The({[datetime |-> CivilAt(instant, offset), zone |-> tz.name,
                          offset |-> offset, instant |-> instant.hours] :
                         offset \in {OffsetAt(tz, instant.hours)}})] :
         instant \in {InstantOf(jdt, compatible(to_ambiguous_timestamp(tz, HoursOf(jdt))))}})

\* naive_datetime_to_system: the zoned date-time, or a panic of one of its
\* two unwraps; tz_read tells whether SYSTEM_TZ was dereferenced.
naive_datetime_to_system(d, tz) ==
    The({The({IF ~conv.ok THEN [panic |-> TRUE, tz_read |-> FALSE, zoned |-> z.zoned]
              ELSE IF ~z.ok THEN [panic |-> TRUE, tz_read |-> TRUE, zoned |-> z.zoned]
              ELSE [panic |-> FALSE, tz_read |-> TRUE, zoned |-> z.zoned] :
              z \in {to_zoned(conv.jdt, tz)}}) :
         conv \in {convert_try_into(clamp_datetime_for_jiff(d))}})

\* ---------------------------------------------------------------- rendering

\* The empty string.
EmptyString == <<>>

\* icu_datetime's formatting of a date-time under a field set: the language
\* and length, the date fields asked for, the time down to the precision
\* asked for, the zone in the style asked for.
Rendered(formatter, d, zone) ==
    LET fs == formatter.fieldset
    IN << formatter.lang, fs.length,
          IF fs.date_fields = None THEN <<>>
          ELSE <<fs.date_fields, d.year, d.month, d.day>>,
          IF fs.time_precision = None THEN <<>>
          ELSE IF fs.time_precision = "Minute" THEN <<d.hour, d.minute>>
          ELSE <<d.hour, d.minute, d.second>>,
          IF fs.zone_style = None THEN <<>> ELSE <<fs.zone_style, zone>> >>

\* The date-time a formatter is given: a naive one, with no zone.
Naive(d) == [datetime |-> d, zone |-> None, offset |-> 0, instant |-> 0]

\* No date-time was given to a formatter.
NoInput ==
    Naive([year |-> 0, month |-> 0, day |-> 0, hour |-> 0, minute |-> 0, second |-> 0,
           subsecond |-> 0])

\* DateTimeFormatter::format that attaches the zone whatever the variant.
format_always_zoned(self, d, tz) ==
    The({IF z.panic
         THEN [status |-> "panic", string |-> EmptyString, tz_read |-> z.tz_read,
               zoned |-> TRUE, input |-> NoInput]
         ELSE [status |-> "Ok",
               string |-> Rendered(self, z.zoned.datetime, <<z.zoned.zone, z.zoned.offset>>),
               tz_read |-> TRUE, zoned |-> TRUE, input |-> z.zoned] :
         z \in {naive_datetime_to_system(d, tz)}})

\* DateTimeFormatter::format(..).to_string(): the zone-aware formatter gets
\* the zoned date-time, the other one the naive date-time.
format(self, d, tz) ==
    IF self.variant = "WithZone"
    THEN The({IF z.panic
              THEN [status |-> "panic", string |-> EmptyString, tz_read |-> z.tz_read,
                    zoned |-> TRUE, input |-> NoInput]
              ELSE [status |-> "Ok",
                    string |-> Rendered(self, z.zoned.datetime,
                                        <<z.zoned.zone, z.zoned.offset>>),
                    tz_read |-> TRUE, zoned |-> TRUE, input |-> z.zoned] :
              z \in {naive_datetime_to_system(d, tz)}})
    ELSE [status |-> "Ok", string |-> Rendered(self, d, None), tz_read |-> FALSE,
          zoned |-> FALSE, input |-> Naive(d)]

\* Hash for FluentDateTimeOptions: the discriminants of the two optional
\* styles, nothing else.
hash(self) == <<self.length.date, self.length.time>>

\* The entries of the memoizer's map the key args finds: those of the same
\* hash that are equal to it.
Found(memo, args) == {e \in memo : hash(e.args) = hash(args) /\ e.args = args}

\* The formatter the memoizer holds for args.
Cached(memo, args) == (CHOOSE e \in Found(memo, args) : TRUE).formatter

\* IntlLangMemoizer::with_try_get that constructs at every lookup, whatever
\* the map holds.
with_try_get_uncached(memo, lng, args) ==
    LET c == construct(lng, args)
    IN [status |-> c.status, formatter |-> c.formatter, hit |-> FALSE,
        memo |-> IF c.status = "Ok"
                 THEN memo \cup {[args |-> args, formatter |-> c.formatter]}
                 ELSE memo]

\* IntlLangMemoizer::with_try_get that stores an entry for a failed
\* construction too.
with_try_get_store_err(memo, lng, args) ==
    LET hit == Found(memo, args) # {}
        c   == IF hit
               THEN [status |-> IF Cached(memo, args).variant = None THEN "Err" ELSE "Ok",
                     formatter |-> Cached(memo, args)]
               ELSE construct(lng, args)
    IN [status |-> c.status, formatter |-> c.formatter, hit |-> hit,
        memo |-> IF c.status = "panic" THEN memo
                 ELSE memo \cup {[args |-> args, formatter |-> c.formatter]}]

\* IntlLangMemoizer::with_try_get::<DateTimeFormatter>(args, cb), up to the
\* callback: the entry of args when the map has one; otherwise construct,
\* whose error is returned before anything is inserted, and whose formatter
\* is inserted.
with_try_get(memo, lng, args) ==
    LET hit == Found(memo, args) # {}
        c   == IF hit THEN [status |-> "Ok", formatter |-> Cached(memo, args)]
               ELSE construct(lng, args)
    IN [status |-> c.status, formatter |-> c.formatter, hit |-> hit,
        memo |-> IF c.status = "Ok"
                 THEN memo \cup {[args |-> args, formatter |-> c.formatter]}
                 ELSE memo]

\* The outcome of a string conversion that stops before formatting.
Stopped(status, memo) ==
    [status |-> status, string |-> EmptyString, tz_read |-> FALSE, zoned |-> FALSE,
     input |-> NoInput, formatter |-> NoFormatter, hit |-> FALSE, intls |-> memo]

\* FluentType::as_string: with_try_get looks the options up, constructs and
\* stores the formatter on a miss, and formats; an error of construct gives
\* the empty string (unwrap_or_default).
as_string(self, memo, lng, tz) ==
    The({IF w.status = "panic" THEN Stopped("panic", w.memo)
         ELSE IF w.status = "Err" THEN Stopped("Ok", w.memo)
         ELSE The({[status |-> f.status, string |-> f.string, tz_read |-> f.tz_read,
                    zoned |-> f.zoned, input |-> f.input, formatter |-> w.formatter,
                    hit |-> w.hit, intls |-> w.memo] :
                   f \in {format(w.formatter, self.value, tz)}}) :
         w \in {with_try_get(memo, lng, self.options)}})

\* concurrent::IntlLangMemoizer::with_try_get::<GimmeTheLocale> constructing
\* a GimmeTheLocale at every call and storing none.
with_try_get_gimme_unstored(memo, lng) ==
    [memo |-> memo, constructed |-> TRUE, lang |-> lng]

\* concurrent::IntlLangMemoizer::with_try_get::<GimmeTheLocale>((), ..),
\* under the memoizer's lock: the entry is constructed and stored when
\* absent; the callback clones the language out of it.
with_try_get_gimme(memo, lng) ==
    [memo |-> memo \cup {"GimmeTheLocale"},
     constructed |-> "GimmeTheLocale" \notin memo,
     lang |-> lng]

\* FluentType::as_string_threadsafe: the memoizer gives the language only
\* (GimmeTheLocale); the formatter is made anew and not stored.
as_string_threadsafe(self, memo, lng, tz) ==
    LET memo2  == memo \cup {"GimmeTheLocale"}
        parsed == icu_parse(lng)
    IN IF ~parsed.ok THEN Stopped("Ok", memo2)
       ELSE The({IF m.status = "panic" THEN Stopped("panic", memo2)
                 ELSE IF m.status = "Err" THEN Stopped("Ok", memo2)
                 ELSE The({[status |-> f.status, string |-> f.string,
                            tz_read |-> f.tz_read, zoned |-> f.zoned, input |-> f.input,
                            formatter |-> m.formatter, hit |-> FALSE, intls |-> memo2] :
                           f \in {format(m.formatter, self.value, tz)}}) :
                 m \in {make_formatter(self.options, parsed.langid)}})

\* ------------------------------------------------------------------ inputs

\* DateTime<Iso>: a naive date-time.
DateTime(y, mo, d, h, mi, s, ns) ==
    [year |-> y, month |-> mo, day |-> d, hour |-> h, minute |-> mi, second |-> s,
     subsecond |-> ns]

\* The date-times the host constructs its value from.
DateTimes ==
    { DateTime(1989, 11, 9, 23, 30, 0, 0),
      DateTime(2016, 12, 31, 23, 59, 60, 0),
      DateTime(9999, 12, 31, 23, 59, 59, 0) }

\* The argument names of a call, in the order FluentArgs keeps them (sorted).
KeyOrder == <<"calendar", "dateStyle", "timeStyle", "unknownKey">>

Keys == {KeyOrder[i] : i \in 1..Len(KeyOrder)}

\* The values a call gives to dateStyle and timeStyle.
StyleVals == {FVString("full"), FVString("long"), FVString("medium"), FVString("short"),
              FVString("bogus"), FVNumber}

\* The values a call gives to the other names.
OtherVals == {FVString("full"), FVNumber}

ValsFor(k) == IF k \in {"dateStyle", "timeStyle"} THEN StyleVals ELSE OtherVals

RECURSIVE ArgsFrom(_, _)
\* The FluentArgs vector of the map f, from the i-th name of KeyOrder on.
ArgsFrom(f, i) ==
    IF i > Len(KeyOrder) THEN <<>>
    ELSE IF KeyOrder[i] \in DOMAIN f
         THEN <<(<<KeyOrder[i], f[KeyOrder[i]]>>)>> \o ArgsFrom(f, i + 1)
         ELSE ArgsFrom(f, i + 1)

\* Every FluentArgs of at most MaxNamed arguments: sorted by name, names unique.
NamedArgs ==
    UNION { { ArgsFrom(f, 1) : f \in { g \in [S -> StyleVals \cup OtherVals] :
                                        \A k \in S : g[k] \in ValsFor(k) } } :
            S \in { T \in SUBSET Keys : Cardinality(T) <= MaxNamed } }

\* The positional arguments of a call: the host's value, a string, another custom type.
PosVals(fdt) == {FVCustom(fdt), FVString("x"), FVCustomOther}

Positionals(fdt) == UNION { [1..n -> PosVals(fdt)] : n \in 0..MaxPositional }

\* ----------------------------------------------------------- state machine

NoCall ==
    [op |-> "none", positional |-> <<>>, named |-> <<>>, after |-> <<>>,
     ret |-> FVError, reached |-> FALSE,
     merged |-> [ok |-> FALSE, self |-> FluentDateTimeOptions_default]]

NoRender ==
    [op |-> "none", value |-> DateTime(0, 0, 0, 0, 0, 0, 0),
     options |-> FluentDateTimeOptions_default, status |-> "Ok", string |-> EmptyString,
     formatter |-> NoFormatter, hit |-> FALSE, zoned |-> FALSE, tz_read |-> FALSE,
     input |-> NoInput]

\* construct has not been called: no formatter built, no failure.
NoConstructions == [built |-> {}, failed |-> FALSE]

\* A thread that has not yet called as_string_threadsafe.
IdleThread ==
    [pc |-> "idle", lang |-> "", formatter |-> NoFormatter, status |-> "Ok",
     string |-> EmptyString, late |-> FALSE, gimme |-> FALSE, constructed |-> FALSE]

\* The LazyLock before its first dereference.
TzUninit == [init |-> FALSE, tz |-> [name |-> "", offset |-> 0, transitions |-> <<>>]]

\* From<DateTime<Iso>> for FluentDateTime: the value with default options;
\* the memoizers of an en-US bundle, empty; SYSTEM_TZ not yet resolved.
Init ==
    /\ \E v \in DateTimes : dt = [value |-> v, options |-> FluentDateTimeOptions_default]
    /\ call = NoCall
    /\ lang = "en-US"
    /\ SYSTEM_TZ = TzUninit
    /\ intls = {}
    /\ intls_concurrent = {}
    /\ render = NoRender
    /\ threads = [t \in 1..NThreads |-> IdleThread]
    /\ constructions = NoConstructions

\* As Init, for a bundle of any language.
InitRender ==
    /\ \E v \in DateTimes : dt = [value |-> v, options |-> FluentDateTimeOptions_default]
    /\ call = NoCall
    /\ lang \in Langs
    /\ SYSTEM_TZ = TzUninit
    /\ intls = {}
    /\ intls_concurrent = {}
    /\ render = NoRender
    /\ threads = [t \in 1..NThreads |-> IdleThread]
    /\ constructions = NoConstructions

\* The host sets the date style of its value.
SetDateStyle ==
    /\ \E style \in Date \cup {None} :
          dt' = [dt EXCEPT !.options = set_date_style(dt.options, style)]
    /\ call' = NoCall
    /\ render' = NoRender
    /\ UNCHANGED <<lang, SYSTEM_TZ, intls, intls_concurrent, threads, constructions>>

\* The host sets the time style of its value.
SetTimeStyle ==
    /\ \E style \in Time \cup {None} :
          dt' = [dt EXCEPT !.options = set_time_style(dt.options, style)]
    /\ call' = NoCall
    /\ render' = NoRender
    /\ UNCHANGED <<lang, SYSTEM_TZ, intls, intls_concurrent, threads, constructions>>

\* The value the caller's slice holds for the host's FluentDateTime after a call.
HostAfter(positional, after) ==
    IF \E i \in 1..Len(positional) : positional[i] = FVCustom(dt)
    THEN LET i == CHOOSE j \in 1..Len(positional) : positional[j] = FVCustom(dt)
         IN downcast(after[i])
    ELSE dt

\* A template calls DATETIME(positional, named); the resolver runs one
\* function call at a time.
CallDATETIME ==
    /\ call.op = "none"
    /\ \E positional \in Positionals(dt), named \in NamedArgs :
        LET r == DATETIME(positional, named)
        IN /\ call' = [op |-> "DATETIME", positional |-> positional, named |-> named,
                       after |-> r.positional, ret |-> r.ret, reached |-> r.reached,
                       merged |-> r.merged]
           /\ dt' = HostAfter(positional, r.positional)
           /\ UNCHANGED <<lang, SYSTEM_TZ, intls, intls_concurrent, render, threads,
                        constructions>>

\* The resolver consumes the value the call returned.
Resolve ==
    /\ call.op = "DATETIME"
    /\ call' = NoCall
    /\ UNCHANGED <<dt, lang, SYSTEM_TZ, intls, intls_concurrent, render, threads,
                        constructions>>

Next == SetDateStyle \/ SetTimeStyle \/ CallDATETIME \/ Resolve

Spec == Init /\ [][Next]_vars

\* The zone a dereference of SYSTEM_TZ gives: the resolved one, or any zone
\* of the system on the first dereference.
TzChoices == IF SYSTEM_TZ.init THEN {SYSTEM_TZ.tz} ELSE Zones

\* The record of a string conversion of the host's value.
RenderOf(op, r) ==
    [op |-> op, value |-> dt.value, options |-> dt.options, status |-> r.status,
     string |-> r.string, formatter |-> r.formatter, hit |-> r.hit, zoned |-> r.zoned,
     tz_read |-> r.tz_read, input |-> r.input]

\* What construct has done once the lookup r is over: a lookup that missed
\* and got a formatter built one, the n-th for its key, after a failure or
\* not; a lookup that got none had construct fail.
Constructed(r) ==
    [built  |-> IF ~r.hit /\ r.formatter # NoFormatter
                THEN constructions.built \cup
                       {[args |-> dt.options,
                         n |-> 1 + Cardinality({c \in constructions.built :
                                                   c.args = dt.options}),
                         after_failure |-> constructions.failed]}
                ELSE constructions.built,
     failed |-> constructions.failed \/ (r.formatter = NoFormatter /\ r.status = "Ok")]

\* The bundle renders the host's value through the single-threaded memoizer.
AsString ==
    /\ \E tz \in TzChoices : \E r \in {as_string(dt, intls, lang, tz)} :
             /\ Cardinality(r.intls) <= MaxCache
             /\ render' = RenderOf("as_string", r)
             /\ intls' = r.intls
             /\ constructions' = Constructed(r)
             /\ SYSTEM_TZ' = IF r.tz_read THEN [init |-> TRUE, tz |-> tz] ELSE SYSTEM_TZ
    /\ UNCHANGED <<dt, call, lang, intls_concurrent, threads>>

\* The bundle renders the host's value through the concurrent memoizer.
AsStringThreadsafe ==
    /\ \E tz \in TzChoices : \E r \in {as_string_threadsafe(dt, intls_concurrent, lang, tz)} :
             /\ render' = RenderOf("as_string_threadsafe", r)
             /\ intls_concurrent' = r.intls
             /\ SYSTEM_TZ' = IF r.tz_read THEN [init |-> TRUE, tz |-> tz] ELSE SYSTEM_TZ
    /\ UNCHANGED <<dt, call, lang, intls, threads, constructions>>

\* Thread t enters as_string_threadsafe and gets the language from the
\* concurrent memoizer (lib.rs:316-318).
TsLookup(t) ==
    /\ threads[t].pc = "idle"
    /\ LET g == with_try_get_gimme(intls_concurrent, lang)
       IN /\ intls_concurrent' = g.memo
          /\ threads' = [threads EXCEPT ![t] =
                 [@ EXCEPT !.pc = "looked", !.lang = g.lang, !.gimme = g.constructed,
                           !.late = \E u \in 1..NThreads : threads[u].pc = "done"]]
    /\ UNCHANGED <<dt, call, lang, SYSTEM_TZ, intls, render, constructions>>

\* Thread t parses the language and makes its formatter (lib.rs:319-326).
TsMake(t) ==
    /\ threads[t].pc = "looked"
    /\ \E parsed \in {icu_parse(threads[t].lang)} :
       \E m \in {make_formatter(dt.options, parsed.langid)} :
          threads' = [threads EXCEPT ![t] =
             IF ~parsed.ok THEN [@ EXCEPT !.pc = "done"]
             ELSE IF m.status = "panic" THEN [@ EXCEPT !.pc = "panicked", !.status = "panic"]
             ELSE IF m.status = "Err" THEN [@ EXCEPT !.pc = "done"]
             ELSE [@ EXCEPT !.pc = "made", !.formatter = m.formatter,
                            !.constructed = TRUE]]
    /\ UNCHANGED <<dt, call, lang, SYSTEM_TZ, intls, intls_concurrent, render,
                   constructions>>

\* Thread t formats the value with its formatter and drops it (lib.rs:327).
TsFormat(t) ==
    /\ threads[t].pc = "made"
    /\ \E tz \in TzChoices : \E f \in {format(threads[t].formatter, dt.value, tz)} :
             /\ threads' = [threads EXCEPT ![t] =
                    [@ EXCEPT !.pc = IF f.status = "panic" THEN "panicked" ELSE "done",
                              !.status = f.status, !.string = f.string]]
             /\ SYSTEM_TZ' = IF f.tz_read THEN [init |-> TRUE, tz |-> tz] ELSE SYSTEM_TZ
    /\ UNCHANGED <<dt, call, lang, intls, intls_concurrent, render, constructions>>

\* The host's value, with any options, shared by the threads of a bundle of
\* any language.
InitConcurrent ==
    /\ \E v \in DateTimes, b \in Bag : dt = [value |-> v, options |-> FluentDateTimeOptions(b)]
    /\ call = NoCall
    /\ lang \in Langs
    /\ SYSTEM_TZ = TzUninit
    /\ intls = {}
    /\ intls_concurrent = {}
    /\ render = NoRender
    /\ threads = [t \in 1..NThreads |-> IdleThread]
    /\ constructions = NoConstructions

NextConcurrent == \E t \in 1..NThreads : TsLookup(t) \/ TsMake(t) \/ TsFormat(t)

SpecConcurrent == InitConcurrent /\ [][NextConcurrent]_vars

\* The date-times the host constructs its value from around the transitions
\* of America/New_York: in the gap of 2024-03-10 (02:00 to 03:00), at its
\* end, in the fold of 2024-11-03 (01:00 to 02:00), at its end, away from
\* both, and with a leap second, in the gap too.
ZoneDateTimes ==
    {DateTime(2024, 3, 10, 2, 30, 0, 0),
     DateTime(2024, 3, 10, 3, 0, 0, 0),
     DateTime(2024, 11, 3, 1, 30, 0, 0),
     DateTime(2024, 11, 3, 2, 0, 0, 0),
     DateTime(2024, 7, 1, 12, 0, 0, 0),
     DateTime(2016, 12, 31, 23, 59, 60, 0),
     DateTime(2024, 3, 10, 2, 59, 60, 500000000)}

\* The host's value is one of the date-times around the transitions.
InitZone ==
    /\ \E v \in ZoneDateTimes : dt = [value |-> v, options |-> FluentDateTimeOptions_default]
    /\ call = NoCall
    /\ lang = "en-US"
    /\ SYSTEM_TZ = TzUninit
    /\ intls = {}
    /\ intls_concurrent = {}
    /\ render = NoRender
    /\ threads = [t \in 1..NThreads |-> IdleThread]
    /\ constructions = NoConstructions

NextRender == SetDateStyle \/ SetTimeStyle \/ AsString \/ AsStringThreadsafe

SpecRender == InitRender /\ [][NextRender]_vars

SpecZone == InitZone /\ [][NextRender]_vars

\* ------------------------------------------------------ claims on the merge

RecognizedKeys == {"dateStyle", "timeStyle"}

\* The four recognized spellings and the length each names.
Spelling == [full |-> "Full", long |-> "Long", medium |-> "Medium", short |-> "Short"]

HasKey(named, k) == \E i \in 1..Len(named) : named[i][1] = k

ValOf(named, k) == named[CHOOSE i \in 1..Len(named) : named[i][1] = k][2]

IsSpelling(v) == v.kind = "String" /\ v.str \in DOMAIN Spelling

\* Some recognized name carries a non-string or an unrecognized string.
NamedInvalid(named) ==
    \E i \in 1..Len(named) : named[i][1] \in RecognizedKeys /\ ~IsSpelling(named[i][2])

\* The arguments with a recognized name.
Recognized(named) ==
    LET Test(a) == a[1] \in RecognizedKeys
    IN SelectSeq(named, Test)

\* The call reached merge_args: the first positional argument is a FluentDateTime.
Merged == call.op = "DATETIME" /\ call.reached

\* The bag merge_args started from, and the one it left.
StartBag == call.positional[1].options.length

EndBag == call.merged.self.length

\* C4: when merge_args succeeds, an axis whose recognized key carries a
\* recognized spelling equals the corresponding length whatever it held
\* before, an axis whose key is absent keeps its prior value, and
\* {dateStyle: "full"} merged into the empty bag gives {date: Full, time: None}.
C4_MergeOverwrite ==
    (Merged /\ call.merged.ok) =>
        /\ (HasKey(call.named, "dateStyle") /\ IsSpelling(ValOf(call.named, "dateStyle"))
              => EndBag.date = Spelling[ValOf(call.named, "dateStyle").str])
        /\ (HasKey(call.named, "timeStyle") /\ IsSpelling(ValOf(call.named, "timeStyle"))
              => EndBag.time = Spelling[ValOf(call.named, "timeStyle").str])
        /\ (~HasKey(call.named, "dateStyle") => EndBag.date = StartBag.date)
        /\ (~HasKey(call.named, "timeStyle") => EndBag.time = StartBag.time)
        /\ (StartBag = empty /\ call.named = <<(<<"dateStyle", FVString("full")>>)>>
              => EndBag = [date |-> "Full", time |-> None])

\* C4 witness: dateStyle "full" replaces a Short date and leaves the Medium time.
C4_Witness ==
    /\ Merged /\ call.merged.ok
    /\ StartBag = [date |-> "Short", time |-> "Medium"]
    /\ call.named = <<(<<"dateStyle", FVString("full")>>)>>
    /\ EndBag = [date |-> "Full", time |-> "Medium"]

\* C5 as stated: when a recognized name carries an invalid value the merge
\* fails and the bag it ran on is the same after the merge as before it.
C5_NoPartialMutation ==
    (Merged /\ NamedInvalid(call.named)) =>
        /\ ~call.merged.ok
        /\ EndBag = StartBag

\* C5 amended: when a recognized name carries an invalid value the merge
\* fails, DATETIME returns the error sentinel and the caller's FluentDateTime
\* is as before; the bag merge_args ran on (the clone DATETIME drops) keeps its
\* time axis and differs on the date axis only by a valid dateStyle that came
\* before an invalid timeStyle.
C5_FailedMergeInvisible ==
    (Merged /\ NamedInvalid(call.named)) =>
        /\ ~call.merged.ok
        /\ call.ret = FVError
        /\ call.after = call.positional
        /\ EndBag.time = StartBag.time
        /\ (EndBag.date # StartBag.date =>
              /\ HasKey(call.named, "dateStyle")
              /\ IsSpelling(ValOf(call.named, "dateStyle"))
              /\ EndBag.date = Spelling[ValOf(call.named, "dateStyle").str]
              /\ HasKey(call.named, "timeStyle")
              /\ ~IsSpelling(ValOf(call.named, "timeStyle")))

\* C5 witness: a valid dateStyle before an invalid timeStyle; the clone's date
\* changed, the call returned the sentinel and the caller's value is as before.
C5_Witness ==
    /\ Merged
    /\ call.named = <<(<<"dateStyle", FVString("full")>>), (<<"timeStyle", FVString("bogus")>>)>>
    /\ StartBag = [date |-> "Short", time |-> "Medium"]
    /\ EndBag = [date |-> "Full", time |-> "Medium"]
    /\ ~call.merged.ok
    /\ call.ret = FVError
    /\ call.after = call.positional

\* C6: arguments whose name is neither dateStyle nor timeStyle change neither
\* the outcome nor the bag of a merge, whatever their value; a merge of
\* unrecognized names only succeeds and leaves the bag as it was.
C6_UnknownIgnored ==
    Merged =>
        /\ call.merged = merge_args(call.positional[1].options, Recognized(call.named))
        /\ (Recognized(call.named) = <<>> => call.merged.ok /\ EndBag = StartBag)

\* C6 witness: two unrecognized names, one with a non-string value, merged
\* into a set bag.
C6_Witness ==
    /\ Merged
    /\ call.named = <<(<<"calendar", FVNumber>>), (<<"unknownKey", FVString("full")>>)>>
    /\ StartBag = [date |-> "Long", time |-> "Short"]
    /\ call.merged.ok
    /\ EndBag = StartBag

\* C7: a call of DATETIME leaves the caller's arguments, and so the host's
\* FluentDateTime, as they were; a returned FluentDateTime has the date-time
\* of the input and the options the merge produced.
C7_InputNotMutated ==
    (call.op = "DATETIME") =>
        /\ call.after = call.positional
        /\ \A i \in 1..Len(call.positional) :
              (call.positional[i].kind = "Custom" /\ call.positional[i].type = "FluentDateTime")
                  => downcast(call.positional[i]) = dt
        /\ (call.ret.kind = "Custom" =>
              /\ call.ret.value = call.positional[1].value
              /\ call.ret.options = call.merged.self)

\* C7 witness: a successful call whose result has other options than its input.
C7_Witness ==
    /\ Merged
    /\ call.ret.kind = "Custom"
    /\ call.ret.options # call.positional[1].options
    /\ call.ret.value = call.positional[1].value
    /\ call.after = call.positional
    /\ dt = downcast(call.positional[1])

\* The first positional argument is a FluentDateTime.
FirstIsDateTime(positional) ==
    /\ Len(positional) >= 1
    /\ positional[1].kind = "Custom"
    /\ positional[1].type = "FluentDateTime"

C9_ReturnedAsIs ==
    (Merged /\ NamedInvalid(call.named)) => call.ret = call.positional[1]

\* ---------------------------------------------------- claims on rendering

\* A string conversion obtained a formatter, built or cached.
Formatted == render.op # "none" /\ render.formatter # NoFormatter

\* The bag of the converted value, and the field set of its formatter.
RBag == render.options.length

RFs == render.formatter.fieldset

\* Year/month/day at Short length, no time precision, no zone style.
ShortDateFields ==
    [length |-> "Short", date_fields |-> "YMD", time_precision |-> None,
     zone_style |-> None, alignment |-> None, year_style |-> None]

\* C1: a value with the empty bag is converted with the configuration of
\* {date: Short, time: None}: year/month/day at Short length, no time
\* precision, no zone style, by the formatter without zone; its string is the
\* short date alone, or empty when the language gives no formatter.
C1_DefaultPolicy ==
    (render.op # "none" /\ RBag = empty) =>
        /\ render.status = "Ok"
        /\ (render.formatter # NoFormatter =>
              /\ RFs = ShortDateFields
              /\ RFs = to_fieldset_builder([date |-> "Short", time |-> None])
              /\ render.formatter.variant = "NoZone"
              /\ render.string =
                    << lang, "Short",
                       <<"YMD", render.value.year, render.value.month, render.value.day>>,
                       <<>>, <<>> >>)
        /\ (render.formatter = NoFormatter =>
              render.string = EmptyString /\ lang \in {"unparsable", "nodata"})

\* C1 witness: 1989-11-09 23:30 with default options in a fr-FR bundle is
\* rendered as the short date.
C1_Witness ==
    /\ render.op = "as_string"
    /\ RBag = empty
    /\ render.value = DateTime(1989, 11, 9, 23, 30, 0, 0)
    /\ render.string = <<"fr-FR", "Short", <<"YMD", 1989, 11, 9>>, <<>>, <<>>>>

\* C2: for a non-empty bag the date fields are weekday+year/month/day exactly
\* for Full and year/month/day for Long, Medium and Short; the length is Long
\* for Full and Long, Medium for Medium, Short for Short; without a date
\* style neither date fields nor length are set.
C2_DateMapping ==
    (Formatted /\ RBag # empty) =>
        /\ (RFs.date_fields = "YMDE" <=> RBag.date = "Full")
        /\ (RBag.date \in {"Long", "Medium", "Short"} => RFs.date_fields = "YMD")
        /\ (RBag.date \in {"Full", "Long"} => RFs.length = "Long")
        /\ (RBag.date = "Medium" => RFs.length = "Medium")
        /\ (RBag.date = "Short" => RFs.length = "Short")
        /\ (RBag.date = None => RFs.date_fields = None /\ RFs.length = None)

\* C2 witness: {date: Long, time: Short} is rendered with year/month/day, no
\* weekday, at Long length.
C2_Witness ==
    /\ Formatted
    /\ RBag = [date |-> "Long", time |-> "Short"]
    /\ render.value = DateTime(1989, 11, 9, 23, 30, 0, 0)
    /\ render.string = <<"en-US", "Long", <<"YMD", 1989, 11, 9>>, <<23, 30>>, <<>>>>

\* C3: with a time style the precision is minute exactly for Short and second
\* otherwise, the zone display is specific-long exactly for Full,
\* specific-short exactly for Long and absent for Medium and Short; without a
\* time style neither precision nor zone display are set.
C3_TimeMapping ==
    Formatted =>
        /\ (RBag.time # None =>
              /\ (RFs.time_precision = "Minute" <=> RBag.time = "Short")
              /\ (RBag.time # "Short" => RFs.time_precision = "Second")
              /\ (RFs.zone_style = "SpecificLong" <=> RBag.time = "Full")
              /\ (RFs.zone_style = "SpecificShort" <=> RBag.time = "Long")
              /\ (RBag.time \in {"Medium", "Short"} => RFs.zone_style = None))
        /\ (RBag.time = None => RFs.time_precision = None /\ RFs.zone_style = None)

\* C3 witness: {time: Long} is rendered to the second with the specific-short
\* zone of the system.
C3_Witness ==
    /\ Formatted
    /\ RBag = [date |-> None, time |-> "Long"]
    /\ render.value = DateTime(1989, 11, 9, 23, 30, 0, 0)
    /\ render.string = <<"en-US", None, <<>>, <<23, 30, 0>>, <<"SpecificShort", <<"UTC", 0>>>>>>

\* C10: a string conversion never panics, and gives the empty string when no
\* formatter is obtained or the zone attachment fails.
C10_NeverPanics ==
    (render.op # "none") =>
        /\ render.status = "Ok"
        /\ (render.formatter = NoFormatter => render.string = EmptyString)

\* ------------------------------------------------- claims on the memoizers

\* Every thread has left as_string_threadsafe.
AllLeft == \A t \in 1..NThreads : threads[t].pc \in {"done", "panicked"}

\* The formatters the concurrent memoizer retains.
RetainedFormatters == intls_concurrent \cap {"DateTimeFormatter"}

C12_FailureNotCached ==
    /\ [][(render'.op = "as_string" /\ construct(lang, dt.options).status = "Err")
            => /\ render'.string = EmptyString
               /\ render'.status = "Ok"
               /\ render'.formatter = NoFormatter
               /\ intls' = intls
               /\ Found(intls', dt.options) = {}
               /\ constructions'.failed]_vars
    /\ [][(render'.op = "as_string" /\ construct(lang, dt.options).status = "Ok")
            => /\ render'.formatter = construct(lang, dt.options).formatter
               /\ [args |-> dt.options, formatter |-> render'.formatter] \in intls'
               /\ intls \subseteq intls']_vars
    /\ [](\A e \in intls : e.formatter # NoFormatter
                            /\ construct(lang, e.args).status = "Ok")

\* C12 witness: construct has just failed for a key while the memoizer holds
\* the formatter of another key, which was built after an earlier failure.
C12_Witness ==
    /\ render.op = "as_string"
    /\ render.formatter = NoFormatter
    /\ render.string = EmptyString
    /\ constructions.failed
    /\ Found(intls, render.options) = {}
    /\ \E e \in intls, c \in constructions.built :
          e.args = c.args /\ c.after_failure /\ e.args # render.options

Zoned == render.op # "none" /\ render.zoned /\ render.status = "Ok"

\* The instants, in hours from the epoch, whose local hour in tz is lh.
Instants(tz, lh) == {h \in (lh - 26)..(lh + 26) : h + OffsetAt(tz, h) = lh}

\* The civil date-time d advanced by g hours.
Advanced(d, g) ==
    CivilAt([hours |-> HoursOf(d) + g, minute |-> d.minute, second |-> d.second,
             subsecond |-> d.subsecond], 0)

\* The last instant of the minute of the date-time d.
LastOfMinute(d) ==
    DateTime(d.year, d.month, d.day, d.hour, d.minute, 59, 999999999)

\* C14: clamp_datetime_for_jiff returns a date-time whose second is below 60
\* unchanged, and one whose second is 60 as the same date, hour and minute
\* with second 59 and subsecond 999999999. A leap-second value rendered with
\* a zone-requiring style does not panic, is given to the formatter as a
\* date-time of second 59, subsecond 999999999 in the same minute (the very
\* same date and hour unless the zone has a gap there) and renders as the
\* last instant of its minute renders.
C14_LeapSecondClamp ==
    /\ LET v == dt.value
           c == clamp_datetime_for_jiff(v)
       IN /\ v.second < 60 => c = v
          /\ v.second = 60 =>
                /\ c.year = v.year /\ c.month = v.month /\ c.day = v.day
                /\ c.hour = v.hour /\ c.minute = v.minute
                /\ c.second = 59 /\ c.subsecond = 999999999
    /\ (render.op # "none" /\ render.zoned /\ render.value.second = 60) =>
          LET v == render.value
              z == render.input.datetime
          IN /\ render.status = "Ok"
             /\ z.minute = v.minute /\ z.second = 59 /\ z.subsecond = 999999999
             /\ Instants(SYSTEM_TZ.tz, HoursOf(v)) # {} => z = LastOfMinute(v)
             /\ render.string =
                   format(render.formatter, LastOfMinute(v), SYSTEM_TZ.tz).string
             /\ render.string[4] = <<z.hour, v.minute, 59>>

\* C14 witness: 2016-12-31 23:59:60 was rendered with a zone-requiring style
\* as 23:59:59.999999999 of the same day.
C14_Witness ==
    /\ Zoned
    /\ render.value = DateTime(2016, 12, 31, 23, 59, 60, 0)
    /\ render.input.datetime = DateTime(2016, 12, 31, 23, 59, 59, 999999999)
    /\ render.string[4] = <<23, 59, 59>>

\* C15: the zone-attached date-time is the local time (after the leap-second
\* clamp) in the system zone under the compatible policy. When two instants
\* have that local time it is the earlier one; when exactly one has, it is
\* that one; when none has, the local time is in the gap of a transition and
\* the result is the local time advanced by the length of the gap, at the
\* offset after the transition. The rendering shows that date-time and offset.
C15_Disambiguation ==
    Zoned =>
        LET tz == SYSTEM_TZ.tz
            L  == clamp_datetime_for_jiff(render.value)
            lh == HoursOf(L)
            I  == Instants(tz, lh)
            z  == render.input
            T  == tz.transitions
        IN /\ SYSTEM_TZ.init
           /\ z.zone = tz.name
           /\ z.offset = OffsetAt(tz, z.instant)
           /\ Cardinality(I) <= 2
           /\ Cardinality(I) = 2 =>
                 /\ z.instant \in I /\ \A h \in I : z.instant <= h
                 /\ z.datetime = L
           /\ Cardinality(I) = 1 => z.instant \in I /\ z.datetime = L
           /\ I = {} =>
                 \E i \in DOMAIN T :
                    LET gap == T[i].offset - OffsetBefore(tz, i)
                    IN /\ gap > 0
                       /\ T[i].at + OffsetBefore(tz, i) <= lh
                       /\ lh < T[i].at + T[i].offset
                       /\ z.datetime = Advanced(L, gap)
                       /\ z.instant \in Instants(tz, lh + gap)
                       /\ z.offset = T[i].offset
           /\ render.string =
                 Rendered(render.formatter, z.datetime, <<tz.name, z.offset>>)

\* C15 witness: 2024-03-10 02:30, in the gap of America/New_York, was
\* rendered as 03:30 at the offset -4.
C15_Witness ==
    /\ Zoned
    /\ SYSTEM_TZ.tz.name = "America/New_York"
    /\ render.value = DateTime(2024, 3, 10, 2, 30, 0, 0)
    /\ render.input.datetime = DateTime(2024, 3, 10, 3, 30, 0, 0)
    /\ render.input.offset = -4
    /\ Instants(SYSTEM_TZ.tz, HoursOf(render.value)) = {}

\* The fold of America/New_York: 2024-11-03 01:30 was rendered at the offset
\* -4 of the earlier of its two instants.
C15_FoldReached ==
    /\ Zoned
    /\ SYSTEM_TZ.tz.name = "America/New_York"
    /\ render.value = DateTime(2024, 11, 3, 1, 30, 0, 0)
    /\ render.input.datetime = render.value
    /\ render.input.offset = -4
    /\ Cardinality(Instants(SYSTEM_TZ.tz, HoursOf(render.value))) = 2

\* Away from the transitions: 2024-07-01 12:00 was rendered at the offset -4
\* of its one instant, and 2024-11-03 02:00, after the fold, at -5.
C15_UniqueReached ==
    /\ Zoned
    /\ SYSTEM_TZ.tz.name = "America/New_York"
    /\ \/ render.value = DateTime(2024, 7, 1, 12, 0, 0, 0) /\ render.input.offset = -4
       \/ render.value = DateTime(2024, 11, 3, 2, 0, 0, 0) /\ render.input.offset = -5
    /\ render.input.datetime = render.value
    /\ Cardinality(Instants(SYSTEM_TZ.tz, HoursOf(render.value))) = 1

\* --------------------------------------- claims on the formatter's variant

\* C16: a formatter is the zone-aware variant exactly when its field set has
\* a zone style, which is exactly when the time style is Full or Long, and
\* the no-zone variant otherwise. format converts the naive date-time (clamp,
\* system timezone) for the zone-aware variant only: the no-zone variant is
\* given the naive date-time as it is and SYSTEM_TZ is not read for it; only
\* a conversion for a zone-aware formatter resolves SYSTEM_TZ.
C16_ZoneOnlyWhenNeeded ==
    /\ [](Formatted =>
            LET f == render.formatter
            IN /\ f.variant \in {"WithZone", "NoZone"}
               /\ f.fieldset = to_fieldset_builder(RBag)
               /\ (f.variant = "WithZone") <=> (RFs.zone_style # None)
               /\ (RFs.zone_style # None) <=> (RBag.time \in {"Full", "Long"})
               /\ render.zoned <=> (f.variant = "WithZone")
               /\ f.variant = "NoZone" =>
                     /\ ~render.tz_read
                     /\ render.status = "Ok"
                     /\ render.input = Naive(render.value)
                     /\ render.string = Rendered(f, render.value, None)
               /\ (f.variant = "WithZone" /\ render.status = "Ok") =>
                     /\ render.tz_read
                     /\ SYSTEM_TZ.init
                     /\ render.input =
                           to_zoned(clamp_datetime_for_jiff(render.value),
                                    SYSTEM_TZ.tz).zoned
                     /\ render.input.zone = SYSTEM_TZ.tz.name)
    /\ [][SYSTEM_TZ' # SYSTEM_TZ =>
            render'.zoned /\ render'.formatter.variant = "WithZone"]_vars

\* C16 witness: a Medium time was rendered by a no-zone formatter from the
\* naive date-time, SYSTEM_TZ still unresolved.
C16_Witness ==
    /\ Formatted
    /\ RBag.time = "Medium"
    /\ render.formatter.variant = "NoZone"
    /\ render.input = Naive(render.value)
    /\ ~SYSTEM_TZ.init
    /\ render.string[4] = <<render.value.hour, render.value.minute, render.value.second>>

\* The build step make_formatter selects for the field set of the bag b.
Built(b) ==
    LET fsb == to_fieldset_builder(b)
    IN IF fsb.zone_style # None THEN build_composite(fsb)
       ELSE build_composite_datetime(fsb)

\* C17: the bag of the value is always one of the 25 bags, and for each of
\* the 25 bags the build step make_formatter selects accepts the field set
\* to_fieldset_builder gives, so make_formatter does not panic; no string
\* conversion stopped on the unwrap of a build result.
C17_CompilerTotal ==
    /\ dt.options.length \in Bag
    /\ Cardinality(Bag) = 25
    /\ \A b \in Bag :
          /\ Built(b).ok
          /\ make_formatter(FluentDateTimeOptions(b), "en-US").status = "Ok"
    /\ Built(dt.options.length).ok
    /\ render.op # "none" => ~(render.status = "panic" /\ render.formatter = NoFormatter)

\* C17 witness: a bag with a Full time and no date, reached by the setters,
\* was built as a composite with zone and rendered.
C17_Witness ==
    /\ Formatted
    /\ RBag = [date |-> None, time |-> "Full"]
    /\ render.formatter.variant = "WithZone"
    /\ RFs.date_fields = None
    /\ RFs.zone_style = "SpecificLong"
    /\ Built(RBag).ok

====
